---- MODULE Spec2Model ----
(***************************************************************************)
(* A model of the two command line tools of nberr/wav-util:                *)
(*   wav-util (src/src/wav-util.c) copies a three-chunk WAV file to        *)
(*            modified.wav;                                                *)
(*   wav-look (src/src/wav-look.c) writes sample.wav (sample rate halved   *)
(*            in the header) and silence.wav (a window of the payload      *)
(*            zeroed).                                                     *)
(* A file is a sequence of bytes (0..255).  The 44-byte header is kept as  *)
(* bytes, exactly as fread/fwrite move it; the fields are read and written *)
(* at their offsets in little-endian order (the host layout the source     *)
(* relies on).  One action is one step of main or of the helper it calls;  *)
(* the environment (fopen, fwrite, calloc) may fail at each call.          *)
(***************************************************************************)
EXTENDS Integers, Sequences, FiniteSets, TLC

(* ------------------------------ bounds --------------------------------- *)
\* The block size of the copy loop.  The source uses 4096; the model keeps
\* the loop and scales the block so that payloads of several blocks are small.
BLOCK == 4
\* The longest payload (bytes after the header) of a modelled input file.
MaxPayload == 18

(* -------------------------- program constants -------------------------- *)
ID_LEN == 4
BITS_PER_BYTE == 8
D_START == 100
D_END == 30
HEADER_SIZE == 44
EXIT_SUCCESS == 0
EXIT_FAILURE == 1
\* What a shell reports for a process killed by SIGFPE (128 + signal 8).
SIGFPE_STATUS == 128 + 8

ByteMod == 256

RIFF_ID == <<82, 73, 70, 70, 0>>       \* "RIFF"
RIFF_FMT == <<87, 65, 86, 69, 0>>      \* "WAVE"
FMT_ID == <<102, 109, 116, 32, 0>>     \* "fmt "
DATA_ID == <<100, 97, 116, 97, 0>>     \* "data"

sample_name == "sample.wav"
silence_name == "silence.wav"
modified_name == "modified.wav"

(* ------------------------- the header layout --------------------------- *)
\* Offsets (0-based) of the fields of struct wav_header_t.
OFF_riff_chunkID == 0
OFF_riff_chunkSize == 4
OFF_riff_format == 8
OFF_fmt_chunkID == 12
OFF_fmt_chunkSize == 16
OFF_audioFormat == 20
OFF_numChannels == 22
OFF_sampleRate == 24
OFF_byteRate == 28
OFF_blockAlign == 32
OFF_bitsPerSample == 34
OFF_data_chunkID == 36
OFF_data_chunkSize == 40

RECURSIVE LE(_, _)
\* The w bytes of the unsigned integer n, least significant first.
LE(n, w) == IF w = 0 THEN <<>> ELSE <<n % ByteMod>> \o LE(n \div ByteMod, w - 1)

RECURSIVE FromLE(_)
\* The unsigned integer stored least significant byte first in bs.
FromLE(bs) == IF bs = <<>> THEN 0 ELSE bs[1] + ByteMod * FromLE(Tail(bs))

\* The w bytes of header h at 0-based offset off.
Field(h, off, w) == SubSeq(h, off + 1, off + w)

\* h with the w bytes at 0-based offset off replaced by bs.
SetField(h, off, bs) ==
    [i \in 1..Len(h) |-> IF i > off /\ i <= off + Len(bs) THEN bs[i - off] ELSE h[i]]

bitsPerSample(h) == FromLE(Field(h, OFF_bitsPerSample, 2))
data_chunkSize(h) == FromLE(Field(h, OFF_data_chunkSize, 4))

\* The 44 bytes of a header with the given tags and fields; rate is the four
\* bytes of the sample rate.
wav_header(rid, rfmt, fid, did, rate, bits, dsize) ==
    rid \o LE(36 + dsize, 4) \o rfmt
    \o fid \o LE(16, 4) \o LE(1, 2) \o LE(2, 2) \o rate
    \o LE(88200, 4) \o LE(4, 2) \o LE(bits, 2)
    \o did \o LE(dsize, 4)

(* ----------------------------- verify_file ----------------------------- *)
RECURSIVE strncmp_from(_, _, _, _)
\* strncmp from index i on: the first difference decides, a NUL in both ends
\* the comparison, and at most n characters are looked at.
strncmp_from(s1, s2, n, i) ==
    IF i > n THEN 0
    ELSE IF s1[i] # s2[i] THEN s1[i] - s2[i]
    ELSE IF s1[i] = 0 THEN 0
    ELSE strncmp_from(s1, s2, n, i + 1)

\* Lower case of an ASCII letter, any other byte unchanged.
tolower(c) == IF c >= 65 /\ c <= 90 THEN c + 32 ELSE c

RECURSIVE strncasecmp_from(_, _, _, _)
strncasecmp_from(s1, s2, n, i) ==
    IF i > n THEN 0
    ELSE IF tolower(s1[i]) # tolower(s2[i]) THEN tolower(s1[i]) - tolower(s2[i])
    ELSE IF s1[i] = 0 THEN 0
    ELSE strncasecmp_from(s1, s2, n, i + 1)

\* A comparison that ignores letter case.
strncasecmp(s1, s2, n) == strncasecmp_from(s1, s2, n, 1)

strncmp(s1, s2, n) == strncmp_from(s1, s2, n, 1)

\* The number of tag checks that fail; every check is evaluated.
verify_file(h) ==
      (IF strncmp(Field(h, OFF_riff_chunkID, ID_LEN), RIFF_ID, ID_LEN) # 0 THEN 1 ELSE 0)
    + (IF strncmp(Field(h, OFF_riff_format, ID_LEN), RIFF_FMT, ID_LEN) # 0 THEN 1 ELSE 0)
    + (IF strncmp(Field(h, OFF_fmt_chunkID, ID_LEN), FMT_ID, ID_LEN) # 0 THEN 1 ELSE 0)
    + (IF strncmp(Field(h, OFF_data_chunkID, ID_LEN), DATA_ID, ID_LEN) # 0 THEN 1 ELSE 0)

(* ----------------------------- create_file ----------------------------- *)
\* x / 2 for the uint32_t x stored in the four bytes bs: every byte is shifted
\* right and takes the low bit of the next more significant byte.
half_uint32(bs) ==
    [i \in 1..4 |-> (bs[i] \div 2) + (IF i < 4 THEN (bs[i + 1] % 2) * 128 ELSE 0)]

\* wav-look's create_file halving another field of its copy (byteRate).
create_file_header_wrong_field(name, header) ==
    IF name = sample_name
    THEN SetField(header, OFF_byteRate, half_uint32(Field(header, OFF_byteRate, 4)))
    ELSE header

\* The header wav-look's create_file writes to the file called name: its own
\* copy of the caller's header, with the sample rate halved for sample.wav.
create_file_header(name, header) ==
    IF name = sample_name
    THEN SetField(header, OFF_sampleRate,
                  half_uint32(Field(header, OFF_sampleRate, 4)))
    ELSE header

\* create_file taking the header by reference: the caller sees the change.
caller_header_by_reference(name, header) == create_file_header(name, header)

\* The caller's header after create_file returns: the parameter is passed by
\* value, the assignment to header.f.sampleRate stays in the callee.
caller_header(name, header) == header

(* --------------------------- silence_section --------------------------- *)
\* header.f.bitsPerSample / BITS_PER_BYTE, the divisor of the sample count.
bytes_per_sample(header) == bitsPerSample(header) \div BITS_PER_BYTE

\* The values num_samples can take.  A zero divisor is undefined behaviour:
\* the division traps (see LookReadBlock) or, on hardware whose divide
\* instruction does not trap, yields 0.
num_samples(header) ==
    IF bytes_per_sample(header) = 0
    THEN {0}
    ELSE {data_chunkSize(header) \div bytes_per_sample(header)}

\* The window to silence; the sums cannot leave 32 bits (ns/2 + ns/30 <= ns).
dstart(ns) == (ns \div 2) + (ns \div D_START)
dend(ns) == (ns \div 2) + (ns \div D_END)

\* The block after silence_section: byte i (0-based) is zeroed when
\* pos = block * BLOCK + i lies in [dstart, dend].
silence_section(data, block, ns) ==
    [j \in 1..Len(data) |->
        IF block * BLOCK + (j - 1) >= dstart(ns) /\ block * BLOCK + (j - 1) <= dend(ns)
        THEN 0 ELSE data[j]]

(* ------------------------------- state --------------------------------- *)
VARIABLES
    prog,          \* "util" or "look": which of the two tools runs
    argc,          \* the argument count main receives
    original,      \* the bytes of the input file
    pos,           \* the read position of the input stream
    header,        \* main's header variable (<<>> before the header is read)
    verified,      \* what verify_file returned (-1 before it is called)
    files,         \* output file name -> [created, bytes]
    data,          \* write_data's block buffer (<<>> before calloc)
    silence_data,  \* wav-look's second block buffer (<<>> before calloc)
    bytes,         \* what the last fread of the copy loop returned
    num_blocks,    \* write_data's block counter
    pc,            \* the position of the run
    exitStatus,    \* the exit status (-1 while the run is going)
    cause          \* why the run ended ("none" while going or on success)

vars == <<prog, argc, original, pos, header, verified, files, data, silence_data,
          bytes, num_blocks, pc, exitStatus, cause>>

Names == {sample_name, silence_name, modified_name}

Min(a, b) == IF a < b THEN a ELSE b

\* A block buffer as calloc returns it.
calloc_block == [j \in 1..BLOCK |-> 0]

\* The buffer after fread stored the n bytes read in its first n places.
fread_into(buf, read) ==
    [j \in 1..Len(buf) |-> IF j <= Len(read) THEN read[j] ELSE buf[j]]

\* The bytes after the header of a file's content.
payload_of(content) == SubSeq(content, HEADER_SIZE + 1, Len(content))

(* ------------------------------ inputs ---------------------------------- *)
\* The spellings tried for a 4-byte tag: the expected one, its letters in the
\* other case, a zero byte in the third or the last place, another last letter.
swapcase(c) ==
    IF c >= 65 /\ c <= 90 THEN c + 32 ELSE IF c >= 97 /\ c <= 122 THEN c - 32 ELSE c

TagChoices(lit) ==
    LET t == SubSeq(lit, 1, ID_LEN) IN
    { t,
      [i \in 1..ID_LEN |-> swapcase(t[i])],
      [i \in 1..ID_LEN |-> IF i = 3 THEN 0 ELSE t[i]],
      [i \in 1..ID_LEN |-> IF i = ID_LEN THEN 0 ELSE t[i]] }

Patterns == {"ff", "ramp", "alt"}

Payload(pat, n) ==
    [i \in 1..n |-> CASE pat = "ff" -> 255
                      [] pat = "ramp" -> ((i - 1) % 255) + 1
                      [] OTHER -> IF i % 2 = 0 THEN 0 ELSE 9]

SampleRates == {LE(1, 4), LE(44100, 4), <<255, 255, 255, 255>>}
BitsChoices == {0, 8, 16}
DataSizes == {0, 6, 30, 60}
TruncatedLens == {0, 43}

GoodHeader == wav_header(SubSeq(RIFF_ID, 1, ID_LEN), SubSeq(RIFF_FMT, 1, ID_LEN),
                         SubSeq(FMT_ID, 1, ID_LEN), SubSeq(DATA_ID, 1, ID_LEN),
                         LE(44100, 4), 16, 30)

\* Input files: well-formed headers with payloads of every length, headers with
\* every combination of tag spellings, and files shorter than a header.
InputFiles ==
    { wav_header(SubSeq(RIFF_ID, 1, ID_LEN), SubSeq(RIFF_FMT, 1, ID_LEN),
                 SubSeq(FMT_ID, 1, ID_LEN), SubSeq(DATA_ID, 1, ID_LEN), r, b, d)
        \o Payload(pat, n) :
        r \in SampleRates, b \in BitsChoices, d \in DataSizes,
        pat \in Patterns, n \in 0..MaxPayload }
    \cup { wav_header(t1, t2, t3, t4, LE(44100, 4), 16, 30) \o Payload("ramp", 1) :
             t1 \in TagChoices(RIFF_ID), t2 \in TagChoices(RIFF_FMT),
             t3 \in TagChoices(FMT_ID), t4 \in TagChoices(DATA_ID) }
    \cup { SubSeq(GoodHeader, 1, n) : n \in TruncatedLens }

Init ==
    /\ prog \in {"util", "look"}
    /\ argc \in {1, 2, 3}
    /\ original \in InputFiles
    /\ argc # 2 => original = GoodHeader \o Payload("ramp", 1)
    /\ pos = 0
    /\ header = <<>>
    /\ verified = -1
    /\ files = [n \in Names |-> [created |-> FALSE, bytes |-> <<>>]]
    /\ data = <<>>
    /\ silence_data = <<>>
    /\ bytes = 0
    /\ num_blocks = 0
    /\ pc = "args"
    /\ exitStatus = -1
    /\ cause = "none"

(* ------------------------------- exits ---------------------------------- *)
\* A failed validation leaving with EXIT_SUCCESS.
exit_status_verify_succeeds(why) == IF why = "verify" THEN EXIT_SUCCESS ELSE EXIT_FAILURE

\* The status the failure sites of the source pass to exit(): EXIT_FAILURE at
\* every one of them, whatever failed.
exit_status(why) == EXIT_FAILURE

Running == UNCHANGED <<cause, exitStatus>>

\* The run ends at a failure site.
Exit(why) ==
    /\ pc' = "exit"
    /\ cause' = why
    /\ exitStatus' = exit_status(why)

(* ------------------------------- main ----------------------------------- *)
\* main: the command line usage check.
CheckArgs ==
    /\ pc = "args"
    /\ IF argc = 1 \/ argc > 2
       THEN Exit("usage")
       ELSE pc' = "open" /\ Running
    /\ UNCHANGED <<prog, argc, original, pos, header, verified, files, data,
                   silence_data, bytes, num_blocks>>

\* main: fopen(argv[1], "rb"), which the environment may refuse.
OpenInput ==
    /\ pc = "open"
    /\ \E ok \in BOOLEAN :
          IF ok THEN pc' = "read_header" /\ Running ELSE Exit("open")
    /\ UNCHANGED <<prog, argc, original, pos, header, verified, files, data,
                   silence_data, bytes, num_blocks>>

\* main: fread(&header, HEADER_SIZE, 1, original); fewer than 44 bytes give
\* header_read = 0, with the bytes that were there stored in header.
ReadHeader ==
    /\ pc = "read_header"
    /\ header' = SubSeq(original, 1, Min(HEADER_SIZE, Len(original)))
    /\ pos' = Min(HEADER_SIZE, Len(original))
    /\ IF Len(original) < HEADER_SIZE
       THEN Exit("truncated")
       ELSE pc' = "verify" /\ Running
    /\ UNCHANGED <<prog, argc, original, verified, files, data, silence_data,
                   bytes, num_blocks>>

\* main going on to create the outputs whatever verify_file returned.
VerifyFile_ignoring_result ==
    /\ pc = "verify"
    /\ verified' = verify_file(header)
    /\ pc' = (IF prog = "util" THEN "create_modified" ELSE "create_sample")
    /\ Running
    /\ UNCHANGED <<prog, argc, original, pos, header, files, data, silence_data,
                   bytes, num_blocks>>

\* main: verify_file(&header), then print(&header), which changes nothing.
VerifyFile ==
    /\ pc = "verify"
    /\ verified' = verify_file(header)
    /\ IF verify_file(header) # 0
       THEN Exit("verify")
       ELSE pc' = (IF prog = "util" THEN "create_modified" ELSE "create_sample")
            /\ Running
    /\ UNCHANGED <<prog, argc, original, pos, header, files, data, silence_data,
                   bytes, num_blocks>>

\* The lengths a failed fwrite of the header may leave in the file.
HeaderShortWrites == {0, 20}

\* create_file(name, header): fopen(name, "w") and the fwrite of the header hdr,
\* either of which may fail; callerHeader is main's header afterwards.
CreateFile(name, hdr, callerHeader, next) ==
    \/ /\ Exit("create")
       /\ UNCHANGED <<files, header>>
    \/ /\ \E k \in HeaderShortWrites :
             files' = [files EXCEPT ![name] =
                          [created |-> TRUE, bytes |-> SubSeq(hdr, 1, k)]]
       /\ Exit("header_write")
       /\ UNCHANGED header
    \/ /\ files' = [files EXCEPT ![name] = [created |-> TRUE, bytes |-> hdr]]
       /\ header' = callerHeader
       /\ pc' = next
       /\ Running

\* wav-util main: create_file(modified_name, header); the header is written
\* as it is.
UtilCreateModified ==
    /\ pc = "create_modified"
    /\ CreateFile(modified_name, header, header, "alloc_data")
    /\ UNCHANGED <<prog, argc, original, pos, verified, data, silence_data,
                   bytes, num_blocks>>

\* wav-look main: FILE *sample = create_file(sample_name, header).
LookCreateSample ==
    /\ pc = "create_sample"
    /\ CreateFile(sample_name, create_file_header(sample_name, header),
                  caller_header(sample_name, header), "create_silence")
    /\ UNCHANGED <<prog, argc, original, pos, verified, data, silence_data,
                   bytes, num_blocks>>

\* wav-look main: FILE *silence = create_file(silence_name, header).
LookCreateSilence ==
    /\ pc = "create_silence"
    /\ CreateFile(silence_name, create_file_header(silence_name, header),
                  caller_header(silence_name, header), "alloc_data")
    /\ UNCHANGED <<prog, argc, original, pos, verified, data, silence_data,
                   bytes, num_blocks>>

(* ----------------------------- write_data ------------------------------- *)
\* write_data: data = calloc(BLOCK, 1), which may return NULL.
AllocData ==
    /\ pc = "alloc_data"
    /\ \E ok \in BOOLEAN :
          IF ok
          THEN /\ data' = calloc_block
               /\ pc' = (IF prog = "util" THEN "read" ELSE "alloc_silence")
               /\ Running
          ELSE Exit("alloc") /\ UNCHANGED data
    /\ UNCHANGED <<prog, argc, original, pos, header, verified, files,
                   silence_data, bytes, num_blocks>>

\* wav-look write_data: silence_data = calloc(BLOCK, 1).
LookAllocSilence ==
    /\ pc = "alloc_silence"
    /\ \E ok \in BOOLEAN :
          IF ok
          THEN silence_data' = calloc_block /\ pc' = "read" /\ Running
          ELSE Exit("alloc") /\ UNCHANGED silence_data
    /\ UNCHANGED <<prog, argc, original, pos, header, verified, files, data,
                   bytes, num_blocks>>

\* The bytes fread(data, 1, BLOCK, original) returns at position pos.
next_block == SubSeq(original, pos + 1, Min(pos + BLOCK, Len(original)))

\* wav-util write_data: the loop condition.  fread returning 0 ends the loop,
\* anything else is a block to write.
UtilReadBlock ==
    /\ pc = "read" /\ prog = "util"
    /\ bytes' = Len(next_block)
    /\ data' = fread_into(data, next_block)
    /\ pos' = pos + Len(next_block)
    /\ IF Len(next_block) > 0
       THEN num_blocks' = num_blocks + 1 /\ pc' = "write_modified"
       ELSE UNCHANGED num_blocks /\ pc' = "close"
    /\ Running
    /\ UNCHANGED <<prog, argc, original, header, verified, files, silence_data>>

\* wav-look write_data: the loop condition and, for a block, num_blocks++,
\* memcpy(silence_data, data, BLOCK) and silence_section(silence_data,
\* num_blocks, header).  With bitsPerSample < 8 the division in
\* silence_section is by zero: the process is killed by SIGFPE, or the
\* division yields the value num_samples lists.
LookReadBlock ==
    /\ pc = "read" /\ prog = "look"
    /\ bytes' = Len(next_block)
    /\ data' = fread_into(data, next_block)
    /\ pos' = pos + Len(next_block)
    /\ IF Len(next_block) > 0
       THEN /\ num_blocks' = num_blocks + 1
            /\ \/ /\ \E ns \in num_samples(header) :
                        silence_data' = silence_section(fread_into(data, next_block),
                                                        num_blocks + 1, ns)
                  /\ pc' = "write_sample"
                  /\ Running
               \/ /\ bytes_per_sample(header) = 0
                  /\ silence_data' = fread_into(data, next_block)
                  /\ pc' = "exit"
                  /\ cause' = "sigfpe"
                  /\ exitStatus' = SIGFPE_STATUS
       ELSE /\ UNCHANGED <<num_blocks, silence_data>>
            /\ pc' = "close"
            /\ Running
    /\ UNCHANGED <<prog, argc, original, header, verified, files>>

\* The copy loop going on after a short write.
WriteBlock_without_check(name, buf, next) ==
    /\ \E w \in 0..bytes :
          files' = [files EXCEPT ![name].bytes = @ \o SubSeq(buf, 1, w)]
    /\ pc' = next
    /\ Running

\* fwrite(buf, 1, bytes, f) on the file called name: all bytes are written, or
\* fewer (a short write), and then the run exits.
WriteBlock(name, buf, next) ==
    \/ /\ files' = [files EXCEPT ![name].bytes = @ \o SubSeq(buf, 1, bytes)]
       /\ pc' = next
       /\ Running
    \/ /\ \E w \in 0..(bytes - 1) :
             files' = [files EXCEPT ![name].bytes = @ \o SubSeq(buf, 1, w)]
       /\ Exit("write")

\* wav-util write_data: fwrite(data, 1, bytes, modified).
UtilWriteModified ==
    /\ pc = "write_modified"
    /\ WriteBlock(modified_name, data, "read")
    /\ UNCHANGED <<prog, argc, original, pos, header, verified, data,
                   silence_data, bytes, num_blocks>>

\* The loop reading the next block right after the write to sample.wav.
LookWriteSample_then_read ==
    /\ pc = "write_sample"
    /\ WriteBlock(sample_name, data, "read")
    /\ UNCHANGED <<prog, argc, original, pos, header, verified, data,
                   silence_data, bytes, num_blocks>>

\* wav-look write_data: fwrite(data, 1, bytes, sample).
LookWriteSample ==
    /\ pc = "write_sample"
    /\ WriteBlock(sample_name, data, "write_silence")
    /\ UNCHANGED <<prog, argc, original, pos, header, verified, data,
                   silence_data, bytes, num_blocks>>

\* wav-look write_data: fwrite(silence_data, 1, bytes, silence).
LookWriteSilence ==
    /\ pc = "write_silence"
    /\ WriteBlock(silence_name, silence_data, "read")
    /\ UNCHANGED <<prog, argc, original, pos, header, verified, data,
                   silence_data, bytes, num_blocks>>

\* main: the fclose calls and return EXIT_SUCCESS.
Close ==
    /\ pc = "close"
    /\ pc' = "done"
    /\ exitStatus' = EXIT_SUCCESS
    /\ UNCHANGED <<prog, argc, original, pos, header, verified, files, data,
                   silence_data, bytes, num_blocks, cause>>

Next ==
    \/ CheckArgs
    \/ OpenInput
    \/ ReadHeader
    \/ VerifyFile
    \/ UtilCreateModified
    \/ LookCreateSample
    \/ LookCreateSilence
    \/ AllocData
    \/ LookAllocSilence
    \/ UtilReadBlock
    \/ LookReadBlock
    \/ UtilWriteModified
    \/ LookWriteSample
    \/ LookWriteSilence
    \/ Close

Spec == Init /\ [][Next]_vars

(* ------------------------- what the claims use -------------------------- *)
\* The first 44 bytes of the input file and the bytes after them.
InputHeader == SubSeq(original, 1, HEADER_SIZE)
InputPayload == payload_of(original)

\* The header and the payload an output file holds.
FileHeader(name) == SubSeq(files[name].bytes, 1, HEADER_SIZE)
FilePayload(name) == payload_of(files[name].bytes)
HasHeader(name) == Len(files[name].bytes) >= HEADER_SIZE

\* The run is over, by return or by exit or by a signal.
Ended == pc \in {"done", "exit"}

\* The tag of h at offset off is not, byte for byte, the literal lit.
TagWrong(h, off, lit) == Field(h, off, ID_LEN) # SubSeq(lit, 1, ID_LEN)

WrongTags(h) ==
      (IF TagWrong(h, OFF_riff_chunkID, RIFF_ID) THEN 1 ELSE 0)
    + (IF TagWrong(h, OFF_riff_format, RIFF_FMT) THEN 1 ELSE 0)
    + (IF TagWrong(h, OFF_fmt_chunkID, FMT_ID) THEN 1 ELSE 0)
    + (IF TagWrong(h, OFF_data_chunkID, DATA_ID) THEN 1 ELSE 0)

\* The input holds a whole header whose four tags are the expected ones.
InputVerifies == Len(original) >= HEADER_SIZE /\ WrongTags(InputHeader) = 0

\* Failures of the environment: a stream that cannot be opened or created, a
\* short write, a failed allocation.
BadInputCauses == {"open", "truncated", "verify"}
BadOutputCauses == {"create", "header_write", "write", "alloc"}

(* ------------------------------- C1 ------------------------------------- *)
\* C1: in wav-look, with numSamples = data.chunkSize / (bitsPerSample / 8),
\* rangeStart = numSamples/2 + numSamples/100 and rangeEnd = numSamples/2 +
\* numSamples/30, every byte of the silence.wav payload at a 0-based payload
\* offset p in [rangeStart, rangeEnd] is zero and every byte at an offset
\* outside it equals the input payload byte at that offset.
C1_SilenceWindowAtPayloadOffsets ==
    (prog = "look" /\ HasHeader(silence_name) /\ bytes_per_sample(InputHeader) # 0) =>
        LET numSamples == data_chunkSize(InputHeader) \div bytes_per_sample(InputHeader)
            rangeStart == (numSamples \div 2) + (numSamples \div 100)
            rangeEnd == (numSamples \div 2) + (numSamples \div 30)
            out == FilePayload(silence_name)
        IN  \A p \in 0..(Len(out) - 1) :
               IF rangeStart <= p /\ p <= rangeEnd
               THEN out[p + 1] = 0
               ELSE out[p + 1] = InputPayload[p + 1]

(* ------------------------------- C2 ------------------------------------- *)
\* C2: for every input whose header verifies and every payload length, when
\* nothing in the environment fails, the run leaves a pass-through output
\* (modified.wav of wav-util, sample.wav of wav-look) whose payload is the
\* input payload: same length, same byte at every offset.
C2_PassThroughIdentical ==
    (Ended /\ argc = 2 /\ InputVerifies /\ cause \notin BadInputCauses \cup BadOutputCauses) =>
        FilePayload(IF prog = "util" THEN modified_name ELSE sample_name) = InputPayload

(* ------------------------------- C10 ------------------------------------ *)
\* C10: in wav-look, whenever silence_section has been called on a block of a
\* verified input, the divisor bitsPerSample / 8 of its first division is not
\* zero.
C10_DivisorNonZero ==
    (prog = "look" /\ num_blocks > 0) => bytes_per_sample(header) # 0

(* ------------------------------- C3 ------------------------------------- *)
\* C3: for every header, verify_file returns the number of the four tag
\* fields whose 4 bytes are not exactly the expected literal, every check
\* being evaluated: 4 when all are wrong, 0 when all match, and a tag with a
\* zero byte or in the other letter case counts as wrong.
C3_VerifyCountsWrongTags ==
    verified # -1 => verified = WrongTags(header)

\* All four tags are wrong, one of them only by letter case and one only by a
\* zero byte, and verify_file has returned.
C3_Witness ==
    /\ verified = 4
    /\ [i \in 1..ID_LEN |-> tolower(Field(header, OFF_riff_chunkID, ID_LEN)[i])]
         = [i \in 1..ID_LEN |-> tolower(RIFF_ID[i])]
    /\ Field(header, OFF_data_chunkID, ID_LEN)[ID_LEN] = 0

(* ------------------------------- C4 ------------------------------------- *)
\* C4: in wav-look, the 44-byte header written to sample.wav has sampleRate =
\* floor(h.sampleRate / 2), h being the input header, and every other byte
\* equal to the byte of h.  The 32-bit rate is compared as two 16-bit halves
\* (rate = hi * 65536 + lo).
C4_SampleHeaderHalvesRateOnly ==
    (prog = "look" /\ HasHeader(sample_name)) =>
        LET w == FileHeader(sample_name)
            h == InputHeader
            lo(x) == FromLE(Field(x, OFF_sampleRate, 2))
            hi(x) == FromLE(Field(x, OFF_sampleRate + 2, 2))
        IN  /\ hi(w) = hi(h) \div 2
            /\ lo(w) = (lo(h) \div 2) + ((hi(h) % 2) * 32768)
            /\ \A i \in 1..HEADER_SIZE :
                  (i <= OFF_sampleRate \/ i > OFF_sampleRate + 4) => w[i] = h[i]

\* sample.wav holds a header with rate 22050 made from an input of rate 44100.
C4_Witness ==
    /\ prog = "look"
    /\ HasHeader(sample_name)
    /\ Field(InputHeader, OFF_sampleRate, 4) = LE(44100, 4)
    /\ Field(FileHeader(sample_name), OFF_sampleRate, 4) = LE(22050, 4)

(* ------------------------------- C5 ------------------------------------- *)
\* C5: no output file is created and no byte is written to an output unless a
\* whole 44-byte header was read and its four tags verify; a run on an input
\* of fewer than 44 bytes or with a wrong tag ends with a non-zero status and
\* no output.
C5_NoOutputWithoutVerifiedHeader ==
    /\ (\E n \in Names : files[n].created \/ files[n].bytes # <<>>) => InputVerifies
    /\ (Ended /\ ~InputVerifies) =>
          /\ exitStatus # 0
          /\ \A n \in Names : ~files[n].created /\ files[n].bytes = <<>>

\* A run on an input with a wrong tag has been stopped by verify_file.
C5_Witness ==
    /\ pc = "exit"
    /\ cause = "verify"
    /\ WrongTags(InputHeader) = 1

(* ------------------------------- C6 ------------------------------------- *)
\* The output stream the copy loop writes next.
WriteTarget ==
    CASE pc = "write_modified" -> modified_name
      [] pc = "write_sample" -> sample_name
      [] OTHER -> silence_name

\* C6: a write of the copy loop that transfers fewer bytes than the block
\* just read ends the run at once with a non-zero status: the input is not
\* read again, no other output changes, and nothing happens after the exit.
C6_ShortWriteIsFatal ==
    [][ /\ ( /\ pc \in {"write_modified", "write_sample", "write_silence"}
             /\ Len(files'[WriteTarget].bytes) < Len(files[WriteTarget].bytes) + bytes )
           => /\ pc' = "exit"
              /\ exitStatus' # 0
              /\ pos' = pos
              /\ \A n \in Names \ {WriteTarget} : files'[n] = files[n]
        /\ pc = "exit" => vars' = vars ]_vars

\* wav-look stopped by a short write to sample.wav: the block did not go to
\* silence.wav and input was left unread.
C6_Witness ==
    /\ prog = "look"
    /\ pc = "exit"
    /\ cause = "write"
    /\ Len(FilePayload(sample_name)) > Len(FilePayload(silence_name))
    /\ Len(FilePayload(silence_name)) = pos - HEADER_SIZE - bytes
    /\ pos < Len(original)

(* ------------------------------- C7 ------------------------------------- *)
\* C7 as stated: every failing run ends with a non-zero status, and the
\* status of a run that fails on a bad input file is none of the statuses of
\* the runs that fail on the output or the environment.
C7_StatusTellsClassesApart ==
    pc = "exit" =>
        /\ exitStatus # 0
        /\ cause \in BadInputCauses =>
              \A c \in BadOutputCauses : exitStatus # exit_status(c)

\* C7, amended: every failing run ends with a non-zero status, and the runs
\* that fail on a bad input file and those that fail on the output or the
\* environment all end with the one status EXIT_FAILURE.
C7_OneFailureStatus ==
    pc = "exit" =>
        /\ exitStatus # 0
        /\ cause \in BadInputCauses \cup BadOutputCauses => exitStatus = EXIT_FAILURE

\* A run stopped by a failed validation.
C7_Witness ==
    pc = "exit" /\ cause = "verify" /\ exitStatus = EXIT_FAILURE

(* ------------------------------- C8 ------------------------------------- *)
\* C8: producing an output never changes the header read from the input:
\* main's header stays the 44 bytes of the input after create_file, and the
\* headers of silence.wav and of modified.wav are those 44 bytes.
C8_HeaderNeverChanged ==
    /\ (verified = 0) => header = InputHeader
    /\ HasHeader(silence_name) => FileHeader(silence_name) = InputHeader
    /\ HasHeader(modified_name) => FileHeader(modified_name) = InputHeader

\* wav-look is copying: sample.wav got a changed header, silence.wav was
\* created after it.
C8_Witness ==
    /\ prog = "look"
    /\ num_blocks > 0
    /\ HasHeader(silence_name)
    /\ FileHeader(sample_name) # InputHeader

(* ------------------------------- C9 ------------------------------------- *)
\* C9: in wav-look's copy the outputs go in lockstep: when a block is about
\* to be read, sample.wav and silence.wav both hold exactly the payload bytes
\* read so far; within a block sample.wav is written first, silence.wav
\* second.
C9_Lockstep ==
    prog = "look" =>
        LET nread == pos - HEADER_SIZE
            nsample == Len(FilePayload(sample_name))
            nsilence == Len(FilePayload(silence_name))
        IN  /\ pc = "read" => nsample = nread /\ nsilence = nread
            /\ pc = "write_sample" => nsample = nread - bytes /\ nsilence = nread - bytes
            /\ pc = "write_silence" => nsample = nread /\ nsilence = nread - bytes

\* The second block has gone to sample.wav and not yet to silence.wav.
C9_Witness ==
    /\ prog = "look"
    /\ pc = "write_silence"
    /\ num_blocks = 2
    /\ Len(FilePayload(sample_name)) = Len(FilePayload(silence_name)) + bytes

====
